---- MODULE Spec2Model ----
(***************************************************************************)
(* Model of the Supabase migration scripts.                                *)
(*                                                                         *)
(*   src/migrate_cloud_to_local.py : get_tables, get_table_counts,         *)
(*       compare_tables, show_tables, migrate_table, migrate_all_tables    *)
(*   src/supabase_toolkit.py       : list_tables, list_tables_with_counts, *)
(*       drop_tables                                                       *)
(*                                                                         *)
(* Strings the code inspects (user responses, table names) are sequences   *)
(* of one-character strings, so that strip(), lower(), the f-string that   *)
(* builds a qualified name, the anchored exclude patterns and sorted() are *)
(* computed and not assumed.  A table of R rows holds the rows 1..R, and   *)
(* .range(lo, hi) returns the rows at the zero-based offsets lo..hi.       *)
(***************************************************************************)
EXTENDS Integers, Sequences, FiniteSets, TLC

VARIABLES
    pc,             \* position of the running function
    entry,          \* the function the run entered
    cloud_tables,   \* migrate_all_tables: the table list it was given
    n_rows,         \* source store: table -> number of rows it holds
    bad_rows,       \* target store: the rows whose insert raises
    response,       \* what the user typed at the prompt (None before input())
    confirm,        \* the response as the code compares it
    asked,          \* whether input() was called
    ti,             \* index of the current table in the list being iterated
    table,          \* the current table
    start,          \* migrate_table / list_tables_with_counts: page offset
    rows,           \* response.data of the last fetch
    ri,             \* migrate_table: index in rows of the next row to insert
    total_inserted, \* migrate_table: its counter
    ret,            \* migrate_table: <<its return value>>, <<>> before it returns
    result,         \* migrate_all_tables: <<its return value>>, <<>> before
    fetch_calls,    \* every .range(lo, hi).execute() issued, and whether it returned
    fetch_errors,   \* number of fetches that raised
    insert_calls,   \* every .insert(row).execute() issued: <<table, row>>
    insert_errors,  \* number of inserts that raised
    local_rows,     \* target store: table -> the rows inserted, in order
    out,            \* the lines printed, as tags
    catalog,        \* get_tables: response.data, a list of <<schema, name>>
    tables,         \* get_tables: the list of names being built
    discovered,     \* get_tables: the list it returned
    local_tables,   \* compare_tables: the table list of the local instance
    all_tables,     \* compare_tables: the sorted union it iterates
    report,         \* compare_tables: the rows printed
    count_calls,    \* every count query issued, its answer and the value returned
    listed,         \* toolkit: <<the list list_tables returned>>, <<>> for None
    list_calls,     \* toolkit: number of rpc('list_tables') requests issued
    total,          \* list_tables_with_counts: rows counted in the current table
    empty_batches,  \* list_tables_with_counts: its counter of empty pages
    drop_calls      \* drop_tables: every rpc('drop_table') issued and its outcome

migVars == <<pc, entry, cloud_tables, n_rows, bad_rows, response, confirm, asked, ti,
             table, start, rows, ri, total_inserted, ret, result, fetch_calls,
             fetch_errors, insert_calls, insert_errors, local_rows, out>>

discVars == <<catalog, tables, discovered>>

cmpVars == <<local_tables, all_tables, report, count_calls>>

tkVars == <<listed, list_calls, total, empty_batches, drop_calls>>

vars == <<migVars, discVars, cmpVars, tkVars>>

\* Before input() is called there is no response; before the first table is
\* taken there is no current table.
NoResponse == <<"None">>
NoTable == <<>>

-----------------------------------------------------------------------------
(* Strings *)

\* str.strip() removes leading and trailing whitespace.
IsSpace(c) == c \in {" ", "\t"}

RECURSIVE lstrip(_)
lstrip(s) == IF s # <<>> /\ IsSpace(Head(s)) THEN lstrip(Tail(s)) ELSE s

RECURSIVE rstrip(_)
rstrip(s) ==
    IF s # <<>> /\ IsSpace(s[Len(s)]) THEN rstrip(SubSeq(s, 1, Len(s) - 1)) ELSE s

strip(s) == rstrip(lstrip(s))

\* str.lower() on the characters the responses are made of.
LowerChar(c) == CASE c = "Y" -> "y" [] c = "N" -> "n" [] c = "E" -> "e"
                  [] c = "S" -> "s" [] OTHER -> c

lower(s) == [i \in 1..Len(s) |-> LowerChar(s[i])]

\* What the user may type at a [y/N] prompt.
ConfirmInputs ==
    { <<>>, <<"y">>, <<"n">>, <<"N">>, <<" ", "Y", "\t">>, <<"y", "e", "s">>,
      <<"y", " ", "y">>, <<" ">> }

-----------------------------------------------------------------------------
(* The stores *)

Tables == { <<"a">>, <<"b">> }

\* The table lists migrate_all_tables is given: get_tables returns them sorted.
TableLists == { <<>>, << <<"a">> >>, << <<"b">> >>, << <<"a">>, <<"b">> >> }

page_size == 1000

Min(a, b) == IF a < b THEN a ELSE b

\* supabase.table(t).select("*").range(lo, hi).execute().data on a table that
\* holds the rows 1..n: the rows at offsets lo..hi, none past the end.
Range(n, lo, hi) ==
    IF lo >= n THEN <<>> ELSE [k \in 1..(Min(hi + 1, n) - lo) |-> lo + k]

-----------------------------------------------------------------------------
(* migrate_table *)

\* Lines 67-72: the request for the page at offset lo, and whether it returned.
FetchCall(t, lo, ok) == [table |-> t, lo |-> lo, hi |-> lo + page_size - 1, ok |-> ok]

\* Lines 67-76: fetch a page; an empty page ends the loop.
FetchPage ==
    /\ pc = "fetch"
    /\ fetch_calls' = Append(fetch_calls, FetchCall(table, start, TRUE))
    /\ rows' = Range(n_rows[table], start, start + page_size - 1)
    /\ ri' = 1
    /\ pc' = IF rows' = <<>> THEN "return" ELSE "insert"
    /\ UNCHANGED <<entry, cloud_tables, n_rows, bad_rows, response, confirm,
                   asked, ti, table, start, total_inserted, ret, result,
                   fetch_errors, insert_calls, insert_errors, local_rows,
                   out, catalog, tables, discovered, local_tables,
                   all_tables, report, count_calls, listed, list_calls,
                   total, empty_batches, drop_calls>>

\* FetchError letting the error end the whole run.
FetchError_Aborts ==
    /\ pc = "fetch"
    /\ fetch_calls' = Append(fetch_calls, FetchCall(table, start, FALSE))
    /\ fetch_errors' = fetch_errors + 1
    /\ out' = Append(out, <<"Error during migration", table>>)
    /\ pc' = "done"
    /\ UNCHANGED <<entry, cloud_tables, n_rows, bad_rows, response, confirm,
                   asked, ti, table, start, rows, ri, total_inserted, ret,
                   result, insert_calls, insert_errors, local_rows, catalog,
                   tables, discovered, local_tables, all_tables, report,
                   count_calls, listed, list_calls, total, empty_batches,
                   drop_calls>>

\* Lines 67-72 raising, caught at 93-95: print and break.
FetchError ==
    /\ pc = "fetch"
    /\ fetch_calls' = Append(fetch_calls, FetchCall(table, start, FALSE))
    /\ fetch_errors' = fetch_errors + 1
    /\ out' = Append(out, <<"Error during migration", table>>)
    /\ pc' = "return"
    /\ UNCHANGED <<entry, cloud_tables, n_rows, bad_rows, response, confirm,
                   asked, ti, table, start, rows, ri, total_inserted, ret,
                   result, insert_calls, insert_errors, local_rows, catalog,
                   tables, discovered, local_tables, all_tables, report,
                   count_calls, listed, list_calls, total, empty_batches,
                   drop_calls>>

\* InsertRow leaving the row loop at the first failed insert.
InsertRow_Abort ==
    /\ pc = "insert"
    /\ ri <= Len(rows)
    /\ insert_calls' = Append(insert_calls, <<table, rows[ri]>>)
    /\ IF rows[ri] \in bad_rows
         THEN /\ insert_errors' = insert_errors + 1
              /\ out' = Append(out, <<"Error inserting row", table>>)
              /\ ri' = Len(rows) + 1
              /\ UNCHANGED <<total_inserted, local_rows>>
         ELSE /\ local_rows' =
                    [local_rows EXCEPT ![table] = Append(@, rows[ri])]
              /\ total_inserted' = total_inserted + 1
              /\ ri' = ri + 1
              /\ UNCHANGED <<insert_errors, out>>
    /\ UNCHANGED <<pc, entry, cloud_tables, n_rows, bad_rows, response,
                   confirm, asked, ti, table, start, rows, ret, result,
                   fetch_calls, fetch_errors, catalog, tables, discovered,
                   local_tables, all_tables, report, count_calls, listed,
                   list_calls, total, empty_batches, drop_calls>>

\* Lines 79-85: one iteration of the row loop; a failed insert is printed and
\* the loop continues.
InsertRow ==
    /\ pc = "insert"
    /\ ri <= Len(rows)
    /\ insert_calls' = Append(insert_calls, <<table, rows[ri]>>)
    /\ IF rows[ri] \in bad_rows
         THEN /\ insert_errors' = insert_errors + 1
              /\ out' = Append(out, <<"Error inserting row", table>>)
              /\ UNCHANGED <<total_inserted, local_rows>>
         ELSE /\ local_rows' =
                    [local_rows EXCEPT ![table] = Append(@, rows[ri])]
              /\ total_inserted' = total_inserted + 1
              /\ UNCHANGED <<insert_errors, out>>
    /\ ri' = ri + 1
    /\ UNCHANGED <<pc, entry, cloud_tables, n_rows, bad_rows, response,
                   confirm, asked, ti, table, start, rows, ret, result,
                   fetch_calls, fetch_errors, catalog, tables, discovered,
                   local_tables, all_tables, report, count_calls, listed,
                   list_calls, total, empty_batches, drop_calls>>

\* NextPage advancing by one row less than a page.
NextPage_Overlap ==
    /\ pc = "insert"
    /\ ri > Len(rows)
    /\ start' = start + page_size - 1
    /\ pc' = "fetch"
    /\ UNCHANGED <<entry, cloud_tables, n_rows, bad_rows, response, confirm,
                   asked, ti, table, rows, ri, total_inserted, ret, result,
                   fetch_calls, fetch_errors, insert_calls, insert_errors,
                   local_rows, out, catalog, tables, discovered,
                   local_tables, all_tables, report, count_calls, listed,
                   list_calls, total, empty_batches, drop_calls>>

\* NextPage leaving the loop after a page shorter than page_size.
NextPage_ShortStop ==
    /\ pc = "insert"
    /\ ri > Len(rows)
    /\ start' = start + page_size
    /\ pc' = IF Len(rows) < page_size THEN "return" ELSE "fetch"
    /\ UNCHANGED <<entry, cloud_tables, n_rows, bad_rows, response, confirm,
                   asked, ti, table, rows, ri, total_inserted, ret, result,
                   fetch_calls, fetch_errors, insert_calls, insert_errors,
                   local_rows, out, catalog, tables, discovered,
                   local_tables, all_tables, report, count_calls, listed,
                   list_calls, total, empty_batches, drop_calls>>

\* Lines 87-91: after the row loop, advance to the next page.
NextPage ==
    /\ pc = "insert"
    /\ ri > Len(rows)
    /\ start' = start + page_size
    /\ pc' = "fetch"
    /\ UNCHANGED <<entry, cloud_tables, n_rows, bad_rows, response, confirm,
                   asked, ti, table, rows, ri, total_inserted, ret, result,
                   fetch_calls, fetch_errors, insert_calls, insert_errors,
                   local_rows, out, catalog, tables, discovered,
                   local_tables, all_tables, report, count_calls, listed,
                   list_calls, total, empty_batches, drop_calls>>

\* Line 97, and lines 216-217 of the entry: the count is returned and
\* migrate_all_tables prints it and takes the next table.
ReturnTotal ==
    /\ pc = "return"
    /\ ret' = <<total_inserted>>
    /\ IF entry = "migrate_all_tables"
         THEN /\ out' = Append(out, <<"Completed", table, total_inserted>>)
              /\ ti' = ti + 1
              /\ pc' = "tables"
         ELSE /\ pc' = "done"
              /\ UNCHANGED <<out, ti>>
    /\ UNCHANGED <<entry, cloud_tables, n_rows, bad_rows, response, confirm,
                   asked, table, start, rows, ri, total_inserted, result,
                   fetch_calls, fetch_errors, insert_calls, insert_errors,
                   local_rows, catalog, tables, discovered, local_tables,
                   all_tables, report, count_calls, listed, list_calls,
                   total, empty_batches, drop_calls>>

migrate_table == FetchPage \/ FetchError \/ InsertRow \/ NextPage \/ ReturnTotal

-----------------------------------------------------------------------------
(* migrate_all_tables *)

\* Lines 199-201: an empty list is refused before anything is asked.
NoTables ==
    /\ pc = "migrate_all"
    /\ cloud_tables = <<>>
    /\ out' = Append(out, <<"No tables found to migrate">>)
    /\ result' = <<FALSE>>
    /\ pc' = "done"
    /\ UNCHANGED <<entry, cloud_tables, n_rows, bad_rows, response, confirm,
                   asked, ti, table, start, rows, ri, total_inserted, ret,
                   fetch_calls, fetch_errors, insert_calls, insert_errors,
                   local_rows, catalog, tables, discovered, local_tables,
                   all_tables, report, count_calls, listed, list_calls,
                   total, empty_batches, drop_calls>>

\* Confirm proceeding on anything but an explicit "n".
Confirm_DefaultYes ==
    /\ pc = "migrate_all"
    /\ cloud_tables # <<>>
    /\ \E raw \in ConfirmInputs :
         /\ response' = raw
         /\ confirm' = lower(strip(raw))
         /\ asked' = TRUE
         /\ IF confirm' = <<"n">>
              THEN /\ out' = Append(out, <<"Migration cancelled by user">>)
                   /\ result' = <<FALSE>>
                   /\ pc' = "done"
                   /\ UNCHANGED ti
              ELSE /\ ti' = 1
                   /\ pc' = "tables"
                   /\ UNCHANGED <<out, result>>
    /\ UNCHANGED <<entry, cloud_tables, n_rows, bad_rows, table, start, rows,
                   ri, total_inserted, ret, fetch_calls, fetch_errors,
                   insert_calls, insert_errors, local_rows, catalog, tables,
                   discovered, local_tables, all_tables, report, count_calls,
                   listed, list_calls, total, empty_batches, drop_calls>>

\* Lines 203-210: the list is printed and the user is asked.
Confirm ==
    /\ pc = "migrate_all"
    /\ cloud_tables # <<>>
    /\ \E raw \in ConfirmInputs :
         /\ response' = raw
         /\ confirm' = lower(strip(raw))
         /\ asked' = TRUE
         /\ IF confirm' # <<"y">>
              THEN /\ out' = Append(out, <<"Migration cancelled by user">>)
                   /\ result' = <<FALSE>>
                   /\ pc' = "done"
                   /\ UNCHANGED ti
              ELSE /\ ti' = 1
                   /\ pc' = "tables"
                   /\ UNCHANGED <<out, result>>
    /\ UNCHANGED <<entry, cloud_tables, n_rows, bad_rows, table, start, rows,
                   ri, total_inserted, ret, fetch_calls, fetch_errors,
                   insert_calls, insert_errors, local_rows, catalog, tables,
                   discovered, local_tables, all_tables, report, count_calls,
                   listed, list_calls, total, empty_batches, drop_calls>>

\* Lines 213-216 with 59-62: the next table of the list is handed to
\* migrate_table, which starts at offset 0 with a count of 0.  The except of
\* lines 218-220 is never taken: migrate_table catches every Exception of its
\* loop itself (lines 83 and 93) and returns.
NextTable ==
    /\ pc = "tables"
    /\ ti <= Len(cloud_tables)
    /\ table' = cloud_tables[ti]
    /\ out' = Append(out, <<"Progress", ti, cloud_tables[ti]>>)
    /\ start' = 0
    /\ total_inserted' = 0
    /\ pc' = "fetch"
    /\ UNCHANGED <<entry, cloud_tables, n_rows, bad_rows, response, confirm,
                   asked, ti, rows, ri, ret, result, fetch_calls,
                   fetch_errors, insert_calls, insert_errors, local_rows,
                   catalog, tables, discovered, local_tables, all_tables,
                   report, count_calls, listed, list_calls, total,
                   empty_batches, drop_calls>>

\* Lines 222-223: after the last table.
Completed ==
    /\ pc = "tables"
    /\ ti > Len(cloud_tables)
    /\ out' = Append(out, <<"Migration completed!">>)
    /\ result' = <<TRUE>>
    /\ pc' = "done"
    /\ UNCHANGED <<entry, cloud_tables, n_rows, bad_rows, response, confirm,
                   asked, ti, table, start, rows, ri, total_inserted, ret,
                   fetch_calls, fetch_errors, insert_calls, insert_errors,
                   local_rows, catalog, tables, discovered, local_tables,
                   all_tables, report, count_calls, listed, list_calls,
                   total, empty_batches, drop_calls>>

migrate_all_tables == NoTables \/ Confirm \/ NextTable \/ Completed

-----------------------------------------------------------------------------
(* get_tables *)

\* Characters of table names in the order of their code points, which is the
\* order sorted() compares strings by.
Alphabet ==
    << ".", "_", "a", "b", "c", "d", "e", "f", "g", "h", "i", "j", "k", "l",
       "m", "n", "o", "p", "q", "r", "s", "t", "u", "v", "w", "x", "y", "z" >>

Ord(c) == CHOOSE i \in 1..Len(Alphabet) : Alphabet[i] = c

\* s < t on Python strings.
RECURSIVE LexLess(_, _)
LexLess(s, t) ==
    IF t = <<>> THEN FALSE
    ELSE IF s = <<>> THEN TRUE
    ELSE IF Head(s) = Head(t) THEN LexLess(Tail(s), Tail(t))
    ELSE Ord(Head(s)) < Ord(Head(t))

\* sorted(q): ascending and stable.
RECURSIVE InsertSorted(_, _)
InsertSorted(x, q) ==
    IF q = <<>> THEN <<x>>
    ELSE IF LexLess(x, Head(q)) THEN <<x>> \o q
    ELSE <<Head(q)>> \o InsertSorted(x, Tail(q))

RECURSIVE sorted(_)
sorted(q) ==
    IF q = <<>> THEN <<>>
    ELSE InsertSorted(q[Len(q)], sorted(SubSeq(q, 1, Len(q) - 1)))

public == <<"p", "u", "b", "l", "i", "c">>

\* Line 121: the schema prefix is left out for the public schema.
full_name(schema, table_name) ==
    IF schema # public THEN schema \o <<".">> \o table_name ELSE table_name

\* Lines 29-38: each pattern is "^" and a literal.
EXCLUDE_PATTERNS ==
    << <<"p", "g", "_">>,
       <<"s", "q", "l", "_">>,
       <<"_">>,
       <<"s", "t", "o", "r", "a", "g", "e">>,
       <<"r", "e", "a", "l", "t", "i", "m", "e">>,
       <<"s", "u", "p", "a", "b", "a", "s", "e">>,
       <<"a", "u", "t", "h">>,
       <<"e", "x", "t", "e", "n", "s", "i", "o", "n", "s">> >>

\* re.search("^" + literal, name): the name starts with the literal.
StartsWith(name, literal) ==
    /\ Len(literal) <= Len(name)
    /\ SubSeq(name, 1, Len(literal)) = literal

\* Line 124.
Excluded(name) ==
    \E k \in 1..Len(EXCLUDE_PATTERNS) : StartsWith(name, EXCLUDE_PATTERNS[k])

\* What the catalog query may answer: up to MaxCatalog items.
MaxCatalog == 3

CatalogSchemas == { public, <<"a">> }

CatalogNames == { <<"a">>, <<"b">>, <<"a", ".", "b">>, <<"_", "a">>, <<"p", "g", "_", "a">> }

CatalogItems == CatalogSchemas \X CatalogNames

CatalogResponses == UNION { [1..n -> CatalogItems] : n \in 0..MaxCatalog }

\* Lines 110-117: the query answers; no data returns [] at once.
QueryCatalog ==
    /\ pc = "get_tables"
    /\ \E data \in CatalogResponses :
         /\ catalog' = data
         /\ IF data = <<>>
              THEN /\ out' = Append(out, <<"No tables found or error fetching tables">>)
                   /\ discovered' = <<>>
                   /\ pc' = "done"
                   /\ UNCHANGED <<tables, ti>>
              ELSE /\ tables' = <<>>
                   /\ ti' = 1
                   /\ pc' = "items"
                   /\ UNCHANGED <<out, discovered>>
    /\ UNCHANGED <<entry, cloud_tables, n_rows, bad_rows, response, confirm,
                   asked, table, start, rows, ri, total_inserted, ret,
                   result, fetch_calls, fetch_errors, insert_calls,
                   insert_errors, local_rows, local_tables, all_tables,
                   report, count_calls, listed, list_calls, total,
                   empty_batches, drop_calls>>

\* Lines 110 and 131-133: the query raises and get_tables raises in turn.
QueryCatalogError ==
    /\ pc = "get_tables"
    /\ out' = Append(out, <<"Error fetching tables">>)
    /\ pc' = "raised"
    /\ UNCHANGED <<entry, cloud_tables, n_rows, bad_rows, response, confirm,
                   asked, ti, table, start, rows, ri, total_inserted, ret,
                   result, fetch_calls, fetch_errors, insert_calls,
                   insert_errors, local_rows, catalog, tables, discovered,
                   local_tables, all_tables, report, count_calls, listed,
                   list_calls, total, empty_batches, drop_calls>>

\* Lines 118-127: one item of the response.
CatalogItem ==
    /\ pc = "items"
    /\ ti <= Len(catalog)
    /\ LET name == full_name(catalog[ti][1], catalog[ti][2])
       IN  tables' = IF Excluded(name) THEN tables ELSE Append(tables, name)
    /\ ti' = ti + 1
    /\ UNCHANGED <<pc, entry, cloud_tables, n_rows, bad_rows, response,
                   confirm, asked, table, start, rows, ri, total_inserted,
                   ret, result, fetch_calls, fetch_errors, insert_calls,
                   insert_errors, local_rows, out, catalog, discovered,
                   local_tables, all_tables, report, count_calls, listed,
                   list_calls, total, empty_batches, drop_calls>>

\* sorted() that also drops repeated names.
ReturnSorted_Unique ==
    /\ pc = "items"
    /\ ti > Len(catalog)
    /\ discovered' =
         sorted(SelectSeq([k \in 1..Len(tables) |->
                              IF \E j \in 1..(k - 1) : tables[j] = tables[k]
                                THEN <<>> ELSE tables[k]],
                          LAMBDA n : n # <<>>))
    /\ pc' = "done"
    /\ UNCHANGED <<entry, cloud_tables, n_rows, bad_rows, response, confirm,
                   asked, ti, table, start, rows, ri, total_inserted, ret,
                   result, fetch_calls, fetch_errors, insert_calls,
                   insert_errors, local_rows, out, catalog, tables,
                   local_tables, all_tables, report, count_calls, listed,
                   list_calls, total, empty_batches, drop_calls>>

\* Line 129.
ReturnSorted ==
    /\ pc = "items"
    /\ ti > Len(catalog)
    /\ discovered' = sorted(tables)
    /\ pc' = "done"
    /\ UNCHANGED <<entry, cloud_tables, n_rows, bad_rows, response, confirm,
                   asked, ti, table, start, rows, ri, total_inserted, ret,
                   result, fetch_calls, fetch_errors, insert_calls,
                   insert_errors, local_rows, out, catalog, tables,
                   local_tables, all_tables, report, count_calls, listed,
                   list_calls, total, empty_batches, drop_calls>>

get_tables == QueryCatalog \/ QueryCatalogError \/ CatalogItem \/ ReturnSorted

-----------------------------------------------------------------------------
(* get_table_counts, compare_tables, show_tables *)

\* What select("*", count='exact').execute() may do: raise, answer without a
\* count (result.count is None), or answer with the count.
CountValues == {0, 5}

CountAnswers ==
    { [raises |-> TRUE, has_count |-> FALSE, count |-> 0],
      [raises |-> FALSE, has_count |-> FALSE, count |-> 0] }
    \cup { [raises |-> FALSE, has_count |-> TRUE, count |-> n] : n \in CountValues }

\* Lines 137-142: "result.count or 0", and -1 when the query raises.
get_table_counts(answer) ==
    IF answer.raises THEN -1
    ELSE IF answer.has_count /\ answer.count # 0 THEN answer.count
    ELSE 0

CountCall(side, t, answer) ==
    [side |-> side, table |-> t, answer |-> answer,
     returned |-> get_table_counts(answer)]

\* The names the two instances may list.
CompareNames == Tables \cup { <<"c">> }

\* The lists get_tables may have returned: up to MaxList names, sorted.
MaxList == 2

SortedLists ==
    { sorted(q) : q \in UNION { [1..n -> CompareNames] : n \in 0..MaxList } }

Elements(q) == { q[k] : k \in 1..Len(q) }

RECURSIVE SetToSeq(_)
SetToSeq(S) ==
    IF S = {} THEN <<>>
    ELSE LET x == CHOOSE y \in S : TRUE IN <<x>> \o SetToSeq(S \ {x})

\* A count column: "N/A" for a table the instance does not list.
NA == <<>>

\* Lines 147-152.
CompareStart ==
    /\ pc = "compare"
    /\ all_tables' = sorted(SetToSeq(Elements(cloud_tables \o local_tables)))
    /\ ti' = 1
    /\ pc' = "compare_rows"
    /\ UNCHANGED <<entry, cloud_tables, n_rows, bad_rows, response, confirm,
                   asked, table, start, rows, ri, total_inserted, ret,
                   result, fetch_calls, fetch_errors, insert_calls,
                   insert_errors, local_rows, out, catalog, tables,
                   discovered, local_tables, report, count_calls, listed,
                   list_calls, total, empty_batches, drop_calls>>

\* CompareRow with the two one-sided labels exchanged.
CompareRow_Swapped ==
    /\ pc = "compare_rows"
    /\ ti <= Len(all_tables)
    /\ \E ac, al \in CountAnswers :
         LET t == all_tables[ti]
             in_cloud == t \in Elements(cloud_tables)
             in_local == t \in Elements(local_tables)
             cloud_count == IF in_cloud THEN <<get_table_counts(ac)>> ELSE NA
             local_count == IF in_local THEN <<get_table_counts(al)>> ELSE NA
             status ==
                 IF ~in_cloud THEN <<"Only in CLOUD">>
                 ELSE IF ~in_local THEN <<"Only in LOCAL">>
                 ELSE IF cloud_count = local_count THEN <<"In sync">>
                 ELSE <<"Different row counts", cloud_count[1], local_count[1]>>
         IN  /\ count_calls' =
                    count_calls
                    \o (IF in_cloud THEN <<CountCall("cloud", t, ac)>> ELSE <<>>)
                    \o (IF in_local THEN <<CountCall("local", t, al)>> ELSE <<>>)
             /\ report' = Append(report,
                    [table |-> t, cloud_count |-> cloud_count,
                     local_count |-> local_count, status |-> status])
    /\ ti' = ti + 1
    /\ UNCHANGED <<pc, entry, cloud_tables, n_rows, bad_rows, response,
                   confirm, asked, table, start, rows, ri, total_inserted,
                   ret, result, fetch_calls, fetch_errors, insert_calls,
                   insert_errors, local_rows, out, catalog, tables,
                   discovered, local_tables, all_tables, listed, list_calls,
                   total, empty_batches, drop_calls>>

\* Lines 154-167: one table of the union.
CompareRow ==
    /\ pc = "compare_rows"
    /\ ti <= Len(all_tables)
    /\ \E ac, al \in CountAnswers :
         LET t == all_tables[ti]
             in_cloud == t \in Elements(cloud_tables)
             in_local == t \in Elements(local_tables)
             cloud_count == IF in_cloud THEN <<get_table_counts(ac)>> ELSE NA
             local_count == IF in_local THEN <<get_table_counts(al)>> ELSE NA
             status ==
                 IF ~in_cloud THEN <<"Only in LOCAL">>
                 ELSE IF ~in_local THEN <<"Only in CLOUD">>
                 ELSE IF cloud_count = local_count THEN <<"In sync">>
                 ELSE <<"Different row counts", cloud_count[1], local_count[1]>>
         IN  /\ count_calls' =
                    count_calls
                    \o (IF in_cloud THEN <<CountCall("cloud", t, ac)>> ELSE <<>>)
                    \o (IF in_local THEN <<CountCall("local", t, al)>> ELSE <<>>)
             /\ report' = Append(report,
                    [table |-> t, cloud_count |-> cloud_count,
                     local_count |-> local_count, status |-> status])
    /\ ti' = ti + 1
    /\ UNCHANGED <<pc, entry, cloud_tables, n_rows, bad_rows, response,
                   confirm, asked, table, start, rows, ri, total_inserted,
                   ret, result, fetch_calls, fetch_errors, insert_calls,
                   insert_errors, local_rows, out, catalog, tables,
                   discovered, local_tables, all_tables, listed, list_calls,
                   total, empty_batches, drop_calls>>

\* Line 154: the loop ends and compare_tables returns.
CompareDone ==
    /\ pc = "compare_rows"
    /\ ti > Len(all_tables)
    /\ pc' = "done"
    /\ UNCHANGED <<entry, cloud_tables, n_rows, bad_rows, response, confirm,
                   asked, ti, table, start, rows, ri, total_inserted, ret,
                   result, fetch_calls, fetch_errors, insert_calls,
                   insert_errors, local_rows, out, catalog, tables,
                   discovered, local_tables, all_tables, report, count_calls,
                   listed, list_calls, total, empty_batches, drop_calls>>

compare_tables == CompareStart \/ CompareRow \/ CompareDone

\* Lines 176-178: one table of the list; a negative count is shown as Error.
ShowRow ==
    /\ pc = "show"
    /\ ti <= Len(cloud_tables)
    /\ \E a \in CountAnswers :
         LET count == get_table_counts(a)
         IN  /\ count_calls' =
                    Append(count_calls, CountCall("cloud", cloud_tables[ti], a))
             /\ out' = Append(out,
                    IF count >= 0 THEN <<"Row", ti, cloud_tables[ti], count>>
                                  ELSE <<"Row", ti, cloud_tables[ti], "Error">>)
    /\ ti' = ti + 1
    /\ UNCHANGED <<pc, entry, cloud_tables, n_rows, bad_rows, response,
                   confirm, asked, table, start, rows, ri, total_inserted,
                   ret, result, fetch_calls, fetch_errors, insert_calls,
                   insert_errors, local_rows, catalog, tables, discovered,
                   local_tables, all_tables, report, listed, list_calls,
                   total, empty_batches, drop_calls>>

\* Line 176: the loop ends and show_tables returns.
ShowDone ==
    /\ pc = "show"
    /\ ti > Len(cloud_tables)
    /\ pc' = "done"
    /\ UNCHANGED <<entry, cloud_tables, n_rows, bad_rows, response, confirm,
                   asked, ti, table, start, rows, ri, total_inserted, ret,
                   result, fetch_calls, fetch_errors, insert_calls,
                   insert_errors, local_rows, out, catalog, tables,
                   discovered, local_tables, all_tables, report, count_calls,
                   listed, list_calls, total, empty_batches, drop_calls>>

show_tables == ShowRow \/ ShowDone

-----------------------------------------------------------------------------
(* supabase_toolkit: list_tables *)

\* What rpc('list_tables').execute() may do: raise, answer with something that
\* is no list, or answer with up to MaxListing rows; a row is <<table_name>>,
\* or <<>> when it has no 'table_name' key.
MaxListing == 2

ListRows == { <<t>> : t \in Tables } \cup { <<>> }

ListAnswers ==
    { [raises |-> TRUE, is_list |-> FALSE, data |-> <<>>],
      [raises |-> FALSE, is_list |-> FALSE, data |-> <<>>] }
    \cup { [raises |-> FALSE, is_list |-> TRUE, data |-> d] :
             d \in UNION { [1..n -> ListRows] : n \in 0..MaxListing } }

\* Lines 56-86: the sorted names of the rows that have one; None when the
\* request raises or the answer is no list.
list_tables(answer) ==
    IF answer.raises \/ ~answer.is_list THEN <<>>
    ELSE LET named == SelectSeq(answer.data, LAMBDA row : row # <<>>)
         IN  << sorted([k \in 1..Len(named) |-> named[k][1]]) >>

\* "not tables": None or an empty list.
NotTables(l) == l = <<>> \/ l[1] = <<>>

-----------------------------------------------------------------------------
(* supabase_toolkit: drop_tables *)

\* What the user may type at the (y/n) prompt.
DropInputs == ConfirmInputs \cup { <<"Y">> }

\* DropConfirm taking an empty response for a yes.
DropConfirm_DefaultYes ==
    /\ pc = "drop"
    /\ \E raw \in DropInputs :
         /\ response' = raw
         /\ confirm' = lower(raw)
         /\ asked' = TRUE
         /\ IF confirm' # <<"y">> /\ confirm' # <<>>
              THEN /\ out' = Append(out, <<"Operation cancelled.">>)
                   /\ pc' = "done"
              ELSE /\ pc' = "drop_list"
                   /\ UNCHANGED out
    /\ UNCHANGED <<entry, cloud_tables, n_rows, bad_rows, ti, table, start,
                   rows, ri, total_inserted, ret, result, fetch_calls,
                   fetch_errors, insert_calls, insert_errors, local_rows,
                   catalog, tables, discovered, local_tables, all_tables,
                   report, count_calls, listed, list_calls, total,
                   empty_batches, drop_calls>>

\* Lines 150-153: the response is lower-cased, not trimmed.
DropConfirm ==
    /\ pc = "drop"
    /\ \E raw \in DropInputs :
         /\ response' = raw
         /\ confirm' = lower(raw)
         /\ asked' = TRUE
         /\ IF confirm' # <<"y">>
              THEN /\ out' = Append(out, <<"Operation cancelled.">>)
                   /\ pc' = "done"
              ELSE /\ pc' = "drop_list"
                   /\ UNCHANGED out
    /\ UNCHANGED <<entry, cloud_tables, n_rows, bad_rows, ti, table, start,
                   rows, ri, total_inserted, ret, result, fetch_calls,
                   fetch_errors, insert_calls, insert_errors, local_rows,
                   catalog, tables, discovered, local_tables, all_tables,
                   report, count_calls, listed, list_calls, total,
                   empty_batches, drop_calls>>

\* Lines 155-160.
DropList ==
    /\ pc = "drop_list"
    /\ \E answer \in ListAnswers :
         /\ listed' = list_tables(answer)
         /\ list_calls' = list_calls + 1
         /\ IF NotTables(listed')
              THEN /\ out' = Append(out, <<"No tables to drop.">>)
                   /\ pc' = "done"
                   /\ UNCHANGED ti
              ELSE /\ out' = Append(out, <<"Dropping", Len(listed'[1])>>)
                   /\ ti' = 1
                   /\ pc' = "drop_rows"
    /\ UNCHANGED <<entry, cloud_tables, n_rows, bad_rows, response, confirm,
                   asked, table, start, rows, ri, total_inserted, ret,
                   result, fetch_calls, fetch_errors, insert_calls,
                   insert_errors, local_rows, catalog, tables, discovered,
                   local_tables, all_tables, report, count_calls, total,
                   empty_batches, drop_calls>>

\* Lines 161-166: one table of the list; a failed drop is printed and the
\* loop goes on.
DropTable ==
    /\ pc = "drop_rows"
    /\ ti <= Len(listed[1])
    /\ \E ok \in BOOLEAN :
         /\ drop_calls' = Append(drop_calls, [table |-> listed[1][ti], ok |-> ok])
         /\ out' = Append(out, <<IF ok THEN "Dropped table" ELSE "Error dropping table",
                                 listed[1][ti]>>)
    /\ ti' = ti + 1
    /\ UNCHANGED <<pc, entry, cloud_tables, n_rows, bad_rows, response,
                   confirm, asked, table, start, rows, ri, total_inserted,
                   ret, result, fetch_calls, fetch_errors, insert_calls,
                   insert_errors, local_rows, catalog, tables, discovered,
                   local_tables, all_tables, report, count_calls, listed,
                   list_calls, total, empty_batches>>

\* Line 161: the loop ends and drop_tables returns.
DropDone ==
    /\ pc = "drop_rows"
    /\ ti > Len(listed[1])
    /\ pc' = "done"
    /\ UNCHANGED <<entry, cloud_tables, n_rows, bad_rows, response, confirm,
                   asked, ti, table, start, rows, ri, total_inserted, ret,
                   result, fetch_calls, fetch_errors, insert_calls,
                   insert_errors, local_rows, out, catalog, tables,
                   discovered, local_tables, all_tables, report, count_calls,
                   listed, list_calls, total, empty_batches, drop_calls>>

drop_tables == DropConfirm \/ DropList \/ DropTable \/ DropDone

-----------------------------------------------------------------------------
(* supabase_toolkit: list_tables_with_counts *)

batch_size == 1000

max_empty_batches == 3

\* Lines 108-115.
CountsList ==
    /\ pc = "list_counts"
    /\ \E answer \in ListAnswers :
         /\ listed' = list_tables(answer)
         /\ list_calls' = list_calls + 1
         /\ IF NotTables(listed')
              THEN /\ out' = Append(out, <<"No tables found.">>)
                   /\ pc' = "done"
                   /\ UNCHANGED ti
              ELSE /\ ti' = 1
                   /\ pc' = "scan_start"
                   /\ UNCHANGED out
    /\ UNCHANGED <<entry, cloud_tables, n_rows, bad_rows, response, confirm,
                   asked, table, start, rows, ri, total_inserted, ret,
                   result, fetch_calls, fetch_errors, insert_calls,
                   insert_errors, local_rows, catalog, tables, discovered,
                   local_tables, all_tables, report, count_calls, total,
                   empty_batches, drop_calls>>

\* Lines 117-123: the next table of the list.
ScanStart ==
    /\ pc = "scan_start"
    /\ ti <= Len(listed[1])
    /\ table' = listed[1][ti]
    /\ total' = 0
    /\ start' = 0
    /\ empty_batches' = 0
    /\ pc' = "scan"
    /\ UNCHANGED <<entry, cloud_tables, n_rows, bad_rows, response, confirm,
                   asked, ti, rows, ri, total_inserted, ret, result,
                   fetch_calls, fetch_errors, insert_calls, insert_errors,
                   local_rows, out, catalog, tables, discovered,
                   local_tables, all_tables, report, count_calls, listed,
                   list_calls, drop_calls>>

\* Lines 125-139: one turn of the loop, the request having answered.
ScanPage ==
    /\ pc = "scan"
    /\ fetch_calls' = Append(fetch_calls,
           [table |-> table, lo |-> start, hi |-> start + batch_size - 1, ok |-> TRUE])
    /\ rows' = Range(n_rows[table], start, start + batch_size - 1)
    /\ IF rows' = <<>>
         THEN /\ empty_batches' = empty_batches + 1
              /\ UNCHANGED total
         ELSE /\ total' = total + Len(rows')
              /\ empty_batches' = 0
    /\ IF rows' = <<>> /\ empty_batches' >= max_empty_batches
         THEN /\ pc' = "scan_end"
              /\ UNCHANGED start
         ELSE IF Len(rows') < batch_size
                THEN /\ pc' = "scan_end"
                     /\ UNCHANGED start
                ELSE /\ start' = start + batch_size
                     /\ UNCHANGED pc
    /\ UNCHANGED <<entry, cloud_tables, n_rows, bad_rows, response, confirm,
                   asked, ti, table, ri, total_inserted, ret, result,
                   fetch_errors, insert_calls, insert_errors, local_rows,
                   out, catalog, tables, discovered, local_tables,
                   all_tables, report, count_calls, listed, list_calls,
                   drop_calls>>

\* Lines 126 and 143-144: the request raises; the table's line is an error.
ScanError ==
    /\ pc = "scan"
    /\ fetch_calls' = Append(fetch_calls,
           [table |-> table, lo |-> start, hi |-> start + batch_size - 1, ok |-> FALSE])
    /\ fetch_errors' = fetch_errors + 1
    /\ out' = Append(out, <<"Count", table, "Error">>)
    /\ ti' = ti + 1
    /\ pc' = "scan_start"
    /\ UNCHANGED <<entry, cloud_tables, n_rows, bad_rows, response, confirm,
                   asked, table, start, rows, ri, total_inserted, ret,
                   result, insert_calls, insert_errors, local_rows, catalog,
                   tables, discovered, local_tables, all_tables, report,
                   count_calls, listed, list_calls, total, empty_batches,
                   drop_calls>>

\* Line 141: the table's line.
ScanEnd ==
    /\ pc = "scan_end"
    /\ out' = Append(out, <<"Count", table, total>>)
    /\ ti' = ti + 1
    /\ pc' = "scan_start"
    /\ UNCHANGED <<entry, cloud_tables, n_rows, bad_rows, response, confirm,
                   asked, table, start, rows, ri, total_inserted, ret,
                   result, fetch_calls, fetch_errors, insert_calls,
                   insert_errors, local_rows, catalog, tables, discovered,
                   local_tables, all_tables, report, count_calls, listed,
                   list_calls, total, empty_batches, drop_calls>>

\* Line 146: after the last table.
CountsDone ==
    /\ pc = "scan_start"
    /\ ti > Len(listed[1])
    /\ pc' = "done"
    /\ UNCHANGED <<entry, cloud_tables, n_rows, bad_rows, response, confirm,
                   asked, ti, table, start, rows, ri, total_inserted, ret,
                   result, fetch_calls, fetch_errors, insert_calls,
                   insert_errors, local_rows, out, catalog, tables,
                   discovered, local_tables, all_tables, report, count_calls,
                   listed, list_calls, total, empty_batches, drop_calls>>

list_tables_with_counts ==
    CountsList \/ ScanStart \/ ScanPage \/ ScanError \/ ScanEnd \/ CountsDone

-----------------------------------------------------------------------------
(* Specifications *)

\* The variables of the toolkit while another function runs.
NoToolkit ==
    /\ listed = <<>>
    /\ list_calls = 0
    /\ total = 0
    /\ empty_batches = 0
    /\ drop_calls = <<>>

\* The variables of compare_tables while another function runs.
NoComparison ==
    local_tables = <<>> /\ all_tables = <<>> /\ report = <<>> /\ count_calls = <<>>

\* The variables of get_tables while another function runs.
NoDiscovery == catalog = <<>> /\ tables = <<>> /\ discovered = <<>>

\* The variables of the migration while another function runs.
NoMigration ==
    /\ cloud_tables = <<>>
    /\ bad_rows = {}
    /\ ri = 1
    /\ total_inserted = 0
    /\ ret = <<>>
    /\ result = <<>>
    /\ insert_calls = <<>>
    /\ insert_errors = 0
    /\ local_rows = [t \in Tables |-> <<>>]

\* No store has been asked for rows and no user for a response.
NoRequests ==
    /\ response = NoResponse
    /\ confirm = NoResponse
    /\ asked = FALSE
    /\ start = 0
    /\ rows = <<>>
    /\ fetch_calls = <<>>
    /\ fetch_errors = 0
    /\ out = <<>>

\* Row counts of a table copied on its own: none, one, one short of a page,
\* a page, one more, two pages, two pages and a half.
RowCounts == {0, 1, 999, 1000, 1001, 2000, 2500}

\* Rows the target may reject.
BadRowSets == { {}, {1}, {2, 1000}, {1000, 1001, 2500}, 1..2500 }

\* migrate_table called on one table.
InitCopy ==
    /\ pc = "fetch"
    /\ entry = "migrate_table"
    /\ cloud_tables = <<>>
    /\ table = <<"a">>
    /\ \E r \in RowCounts : n_rows = [t \in Tables |-> r]
    /\ bad_rows \in BadRowSets
    /\ response = NoResponse
    /\ confirm = NoResponse
    /\ asked = FALSE
    /\ ti = 0
    /\ start = 0
    /\ rows = <<>>
    /\ ri = 1
    /\ total_inserted = 0
    /\ ret = <<>>
    /\ result = <<>>
    /\ fetch_calls = <<>>
    /\ fetch_errors = 0
    /\ insert_calls = <<>>
    /\ insert_errors = 0
    /\ local_rows = [t \in Tables |-> <<>>]
    /\ out = <<>>
    /\ NoDiscovery
    /\ NoComparison
    /\ NoToolkit

SpecCopy == InitCopy /\ [][migrate_table]_vars

\* The tables of a whole migration: one of more than a page beside a small or
\* an empty one.
RowMaps ==
    { [t \in Tables |-> IF t = <<"a">> THEN ra ELSE rb] :
        <<ra, rb>> \in { <<1001, 2>>, <<2, 1001>>, <<0, 2>>, <<2, 0>> } }

\* migrate_all_tables called on a table list.
Init ==
    /\ pc = "migrate_all"
    /\ entry = "migrate_all_tables"
    /\ cloud_tables \in TableLists
    /\ table = NoTable
    /\ n_rows \in RowMaps
    /\ bad_rows \in { {}, {2} }
    /\ response = NoResponse
    /\ confirm = NoResponse
    /\ asked = FALSE
    /\ ti = 0
    /\ start = 0
    /\ rows = <<>>
    /\ ri = 1
    /\ total_inserted = 0
    /\ ret = <<>>
    /\ result = <<>>
    /\ fetch_calls = <<>>
    /\ fetch_errors = 0
    /\ insert_calls = <<>>
    /\ insert_errors = 0
    /\ local_rows = [t \in Tables |-> <<>>]
    /\ out = <<>>
    /\ NoDiscovery
    /\ NoComparison
    /\ NoToolkit

Next == migrate_all_tables \/ migrate_table

Spec == Init /\ [][Next]_vars

\* get_tables called on a store.
InitDiscover ==
    /\ pc = "get_tables"
    /\ entry = "get_tables"
    /\ ti = 0
    /\ table = NoTable
    /\ n_rows = [t \in Tables |-> 0]
    /\ NoRequests
    /\ NoMigration
    /\ NoDiscovery
    /\ NoComparison
    /\ NoToolkit

SpecDiscover == InitDiscover /\ [][get_tables]_vars

\* compare_tables or show_tables called from the menu with the lists that
\* get_tables returned.
InitCompare ==
    /\ pc \in {"compare", "show"}
    /\ ti = 1
    /\ table = NoTable
    /\ n_rows = [t \in Tables |-> 0]
    /\ NoRequests
    /\ entry = (IF pc = "compare" THEN "compare_tables" ELSE "show_tables")
    /\ cloud_tables \in SortedLists
    /\ bad_rows = {}
    /\ ri = 1
    /\ total_inserted = 0
    /\ ret = <<>>
    /\ result = <<>>
    /\ insert_calls = <<>>
    /\ insert_errors = 0
    /\ local_rows = [t \in Tables |-> <<>>]
    /\ NoDiscovery
    /\ local_tables \in (IF pc = "compare" THEN SortedLists ELSE { <<>> })
    /\ all_tables = <<>>
    /\ report = <<>>
    /\ count_calls = <<>>
    /\ NoToolkit

NextCompare == compare_tables \/ show_tables

SpecCompare == InitCompare /\ [][NextCompare]_vars

\* Row counts of the tables the toolkit scans.
ScanRowCounts == {0, 1, 1000, 2500}

\* drop_tables or list_tables_with_counts called from the toolkit's menu.
InitToolkit ==
    /\ pc \in {"drop", "list_counts"}
    /\ entry = (IF pc = "drop" THEN "drop_tables" ELSE "list_tables_with_counts")
    /\ ti = 1
    /\ table = NoTable
    /\ n_rows \in [Tables -> ScanRowCounts]
    /\ NoRequests
    /\ NoMigration
    /\ NoDiscovery
    /\ NoComparison
    /\ NoToolkit

NextToolkit == drop_tables \/ list_tables_with_counts

SpecToolkit == InitToolkit /\ [][NextToolkit]_vars

\* Every step is taken sooner or later: the scripts run one call after another
\* and each request to a store returns or raises.
FairSpec == Spec /\ WF_vars(Next)

-----------------------------------------------------------------------------
(* Properties of migrate_table, under SpecCopy *)

\* The insert requests that copy the rows 1..n of table t, in order.
AllRows(t, n) == [k \in 1..n |-> <<t, k>>]

\* The offsets of the fetches issued.
FetchOffsets == [k \in 1..Len(fetch_calls) |-> fetch_calls[k].lo]

\* C1: when no fetch raises, a finished copy of a table of R rows has issued
\* exactly R inserts, one for each source row, for every R (R = 0 and the
\* multiples of the page size included).
C1_PaginationComplete ==
    (pc = "done" /\ fetch_errors = 0)
        => insert_calls = AllRows(table, n_rows[table])

C1_Witness ==
    /\ pc = "done"
    /\ fetch_errors = 0
    /\ n_rows[table] = page_size
    /\ Len(insert_calls) = page_size

\* C2 as the specification states it: no fetch follows a page shorter than
\* the page size, so a finished copy of R rows has issued ceil(R/P) fetches
\* (3 for 2500 rows).
C2_ShortPageStops ==
    /\ \A k \in 1..(Len(fetch_calls) - 1) :
         n_rows[table] - fetch_calls[k].lo >= page_size
    /\ (pc = "done" /\ fetch_errors = 0)
         => Len(fetch_calls) = (n_rows[table] + page_size - 1) \div page_size

\* C2 as the code has it: only an empty page (or a fetch that raises) ends the
\* loop, so no fetch follows an empty page, a short page is followed by one
\* more fetch, and a finished copy of R rows has issued ceil(R/P) + 1 fetches
\* at the offsets 0, P, 2P, ... (4 for 2500 rows: 0, 1000, 2000, 3000).
C2_EmptyPageStops ==
    /\ \A k \in 1..(Len(fetch_calls) - 1) :
         /\ fetch_calls[k].ok
         /\ fetch_calls[k].lo < n_rows[table]
    /\ (pc = "done" /\ fetch_errors = 0)
         => /\ FetchOffsets =
                 [k \in 1..((n_rows[table] + page_size - 1) \div page_size + 1)
                    |-> (k - 1) * page_size]
            /\ fetch_calls[Len(fetch_calls)].lo >= n_rows[table]
    /\ (pc = "done" /\ fetch_errors = 0 /\ n_rows[table] = 2500)
         => FetchOffsets = <<0, 1000, 2000, 3000>>

C2_Witness ==
    /\ pc = "done"
    /\ fetch_errors = 0
    /\ n_rows[table] = 999
    /\ FetchOffsets = <<0, 1000>>
    /\ Len(insert_calls) = 999

\* C3: a failed insert stops nothing: every row of every page fetched is
\* attempted, in order, whatever inserts failed; the counter and the number
\* of failed inserts always add up to the number of inserts attempted, and
\* the count returned is the number of rows that reached the target.
C3_PartialFailureIsolation ==
    /\ total_inserted + insert_errors = Len(insert_calls)
    /\ total_inserted = Len(local_rows[table])
    /\ pc \in {"fetch", "return", "done"}
         => insert_calls = AllRows(table, Min(n_rows[table], start))
    /\ pc = "done"
         => /\ ret = <<total_inserted>>
            /\ ret[1] + insert_errors = Len(insert_calls)
            /\ insert_errors =
                 Cardinality(bad_rows \cap (1..Min(n_rows[table], start)))

C3_Witness ==
    /\ pc = "done"
    /\ bad_rows = {2, 1000}
    /\ n_rows[table] = 1001
    /\ insert_errors = 2
    /\ ret = <<999>>
    /\ Len(insert_calls) = 1001

-----------------------------------------------------------------------------
(* Properties of migrate_all_tables, under Spec *)

\* The responses that are "y" once trimmed and lower-cased.
Affirmative == { <<"y">>, <<" ", "Y", "\t">> }

\* C4: with an empty table list, or a response that is not "y" once trimmed
\* and lower-cased, nothing is fetched and nothing is inserted and the call
\* returns False; with an empty list the user is not even asked.
C4_ConfirmationGate ==
    /\ (cloud_tables = <<>> \/ response \notin Affirmative)
         => /\ fetch_calls = <<>>
            /\ insert_calls = <<>>
            /\ \A t \in Tables : local_rows[t] = <<>>
            /\ pc = "done" => result = <<FALSE>>
    /\ cloud_tables = <<>> => (~asked /\ response = NoResponse)

C4_Witness ==
    /\ pc = "done"
    /\ cloud_tables # <<>>
    /\ response = <<"y", "e", "s">>
    /\ result = <<FALSE>>
    /\ fetch_calls = <<>>

Confirmed == cloud_tables # <<>> /\ response \in Affirmative

\* The rows of table t whose insert returned, in the order of the requests.
Inserted(t) ==
    LET ok == SelectSeq(insert_calls, LAMBDA c : c[1] = t /\ c[2] \notin bad_rows)
    IN  [k \in 1..Len(ok) |-> ok[k][2]]

\* The "Progress" lines printed, one for each table taken from the list.
ProgressLines == SelectSeq(out, LAMBDA l : l[1] = "Progress")

\* What C6 says of a state.
TableFailureIsolated ==
    /\ \A t \in Tables : local_rows[t] = Inserted(t)
    /\ \A k \in 1..Len(fetch_calls) :
         ~fetch_calls[k].ok
            => \A j \in (k + 1)..Len(fetch_calls) :
                  fetch_calls[j].table # fetch_calls[k].table
    /\ (pc = "done" /\ Confirmed)
         => /\ result = <<TRUE>>
            /\ out[Len(out)] = <<"Migration completed!">>
            /\ ProgressLines =
                 [i \in 1..Len(cloud_tables) |-> <<"Progress", i, cloud_tables[i]>>]
            /\ \A i \in 1..Len(cloud_tables) :
                  \E k \in 1..Len(fetch_calls) :
                      /\ fetch_calls[k].table = cloud_tables[i]
                      /\ fetch_calls[k].lo = 0

\* C6: a fetch that raises ends the copy of its table only: no later fetch
\* names that table, the rows inserted so far stay on the target, every
\* table of the list is taken in the given order, and a confirmed migration
\* always ends with the completion report and returns True.
C6_TableFailureIsolation ==
    /\ []TableFailureIsolated
    /\ (Confirmed ~> (pc = "done" /\ result = <<TRUE>>))

C6_Witness ==
    /\ pc = "done"
    /\ result = <<TRUE>>
    /\ cloud_tables = << <<"a">>, <<"b">> >>
    /\ \E k \in 1..Len(fetch_calls) :
         /\ ~fetch_calls[k].ok
         /\ fetch_calls[k].table = <<"a">>
         /\ fetch_calls[k].lo = page_size
    /\ Len(local_rows[<<"a">>]) = page_size
    /\ Len(local_rows[<<"b">>]) = 2

-----------------------------------------------------------------------------
(* Properties of get_tables, under SpecDiscover *)

\* The qualified names of the catalog items, in the order of the response.
CatalogQualified ==
    [k \in 1..Len(catalog) |-> full_name(catalog[k][1], catalog[k][2])]

\* How many times x occurs in q.
Occurrences(x, q) == Cardinality({k \in 1..Len(q) : q[k] = x})

Ascending(q) == \A i, j \in 1..Len(q) : i < j => ~LexLess(q[j], q[i])

\* C7 as the specification states it: for any catalog response the list
\* returned is sorted ascending and holds no qualified name twice.
C7_SortedNoDuplicates ==
    pc = "done"
        => /\ Ascending(discovered)
           /\ \A i, j \in 1..Len(discovered) : i # j => discovered[i] # discovered[j]

\* C7 as the code has it: the list returned is sorted ascending and holds
\* each qualified name that no pattern excludes as many times as the catalog
\* response yields it, so a name is returned twice exactly when the response
\* yields it twice.
C7_SortedSameNames ==
    pc = "done"
        => /\ Ascending(discovered)
           /\ \A k \in 1..Len(discovered) : ~Excluded(discovered[k])
           /\ \A k \in 1..Len(catalog) :
                 LET name == CatalogQualified[k]
                 IN  Occurrences(name, discovered) =
                        IF Excluded(name) THEN 0 ELSE Occurrences(name, CatalogQualified)
           /\ \A k \in 1..Len(discovered) :
                 \E j \in 1..Len(catalog) : CatalogQualified[j] = discovered[k]

C7_Witness ==
    /\ pc = "done"
    /\ catalog = << <<public, <<"b">> >>, <<public, <<"a", ".", "b">> >>, << <<"a">>, <<"b">> >> >>
    /\ discovered = << <<"a", ".", "b">>, <<"a", ".", "b">>, <<"b">> >>

-----------------------------------------------------------------------------
(* Properties of compare_tables and get_table_counts, under SpecCompare *)

\* The count queries issued for table t on one side.
CallsFor(side, t) ==
    SelectSeq(count_calls, LAMBDA c : c.side = side /\ c.table = t)

\* C5: compare_tables prints one row for each table of the union of the two
\* lists, in ascending order.  A table in both lists is in sync when the two
\* counts obtained are equal and different, with both counts shown, when they
\* are not; a table in one list only is labelled as only on that side, its
\* other column is N/A and no count is asked of the side that lacks it.
C5_ComparatorClassification ==
    (pc = "done" /\ entry = "compare_tables")
        => /\ \A i, j \in 1..Len(report) :
                 i < j => LexLess(report[i].table, report[j].table)
           /\ { report[k].table : k \in 1..Len(report) }
                 = Elements(cloud_tables) \cup Elements(local_tables)
           /\ \A k \in 1..Len(report) :
                 LET row == report[k]
                     in_cloud == \E i \in 1..Len(cloud_tables) : cloud_tables[i] = row.table
                     in_local == \E i \in 1..Len(local_tables) : local_tables[i] = row.table
                     cc == CallsFor("cloud", row.table)
                     lc == CallsFor("local", row.table)
                 IN  /\ Len(cc) = (IF in_cloud THEN 1 ELSE 0)
                     /\ Len(lc) = (IF in_local THEN 1 ELSE 0)
                     /\ in_cloud => row.cloud_count = <<cc[1].returned>>
                     /\ in_local => row.local_count = <<lc[1].returned>>
                     /\ ~in_cloud => row.cloud_count = NA /\ row.status = <<"Only in LOCAL">>
                     /\ ~in_local => row.local_count = NA /\ row.status = <<"Only in CLOUD">>
                     /\ (in_cloud /\ in_local /\ cc[1].returned = lc[1].returned)
                          => row.status = <<"In sync">>
                     /\ (in_cloud /\ in_local /\ cc[1].returned # lc[1].returned)
                          => row.status =
                               <<"Different row counts", cc[1].returned, lc[1].returned>>

C5_Witness ==
    /\ pc = "done"
    /\ cloud_tables = << <<"a">>, <<"b">> >>
    /\ local_tables = << <<"b">>, <<"c">> >>
    /\ Len(report) = 3
    /\ report[1].status = <<"Only in CLOUD">>
    /\ report[2].status = <<"In sync">>
    /\ report[2].cloud_count = <<5>>
    /\ report[3].status = <<"Only in LOCAL">>

\* C8 as the specification states it: a count query that raises, or that
\* answers without a count, makes get_table_counts return -1, and a query
\* that answers with a count makes it return that count.
C8_UnknownIsMinusOne ==
    \A k \in 1..Len(count_calls) :
        LET c == count_calls[k]
        IN  /\ (c.answer.raises \/ ~c.answer.has_count) => c.returned = -1
            /\ (~c.answer.raises /\ c.answer.has_count) => c.returned = c.answer.count

\* C11 as the specification states it: a row is labelled in sync only when
\* neither of the two count queries of its table raised and the two counts
\* are equal; a count that failed on the cloud side, on the local side or on
\* both never gives an in-sync row.
C11_InSyncOnlyWhenCounted ==
    \A k \in 1..Len(report) :
        report[k].status = <<"In sync">>
            => LET cc == CallsFor("cloud", report[k].table)
                   lc == CallsFor("local", report[k].table)
               IN  /\ Len(cc) = 1 /\ Len(lc) = 1
                   /\ ~cc[1].answer.raises
                   /\ ~lc[1].answer.raises
                   /\ cc[1].returned = lc[1].returned

-----------------------------------------------------------------------------
(* Properties of the toolkit, under SpecToolkit *)

\* The responses that are "y" once lower-cased.
DropAffirmative == { <<"y">>, <<"Y">> }

DroppedTables == [k \in 1..Len(drop_calls) |-> drop_calls[k].table]

\* C9: unless the response, lower-cased, is exactly "y", drop_tables lists no
\* tables and drops none (an empty response is no yes); once confirmed it
\* asks to drop each listed table once, in the order of the list, whether or
\* not an earlier drop failed.
C9_DropConfirmationGate ==
    entry = "drop_tables"
        => /\ response \notin DropAffirmative
                => (list_calls = 0 /\ drop_calls = <<>>)
           /\ NotTables(listed) => drop_calls = <<>>
           /\ ~NotTables(listed)
                => DroppedTables = SubSeq(listed[1], 1, Len(drop_calls))
           /\ (pc = "done" /\ ~NotTables(listed)) => DroppedTables = listed[1]

C9_Witness ==
    /\ entry = "drop_tables"
    /\ pc = "done"
    /\ response = <<"Y">>
    /\ listed = << << <<"a">>, <<"b">> >> >>
    /\ drop_calls = << [table |-> <<"a">>, ok |-> FALSE], [table |-> <<"b">>, ok |-> TRUE] >>

\* C10 as the specification states it: a scan is not ended by an empty page
\* before the third consecutive one: after an empty page that leaves the
\* counter below max_empty_batches the scan goes on to the next range.
C10_EmptyBatchFailSafe ==
    (entry = "list_tables_with_counts" /\ pc = "scan_end" /\ rows = <<>>)
        => empty_batches >= max_empty_batches

====
